---- MODULE Spec2Model ----
(***************************************************************************)
(* The multi-tenant session manager of the Conector backend:              *)
(* ClientManager (registry `clients`, pairing cache `lastQr`, the start,  *)
(* delete and recovery paths, the network-event handlers and the webhook  *)
(* dispatcher) together with the session routes that drive it.            *)
(*                                                                         *)
(* JavaScript runs one callback at a time: an action of this module is    *)
(* the code that runs between two awaits.  The network client, the        *)
(* config store, the filesystem and the HTTP endpoint are the             *)
(* environment: they settle each awaited call with any outcome it can     *)
(* have, and an alive client may raise any of its signals at any time.    *)
(***************************************************************************)
EXTENDS Naturals, Sequences, FiniteSets

\* ------------------------------------------------------------------ bounds
\* Client objects constructed in one run.
MaxHandles == 2
\* The same, for the specification of the registry under logout (Spec).
MaxRegistryHandles == 3
\* deleteSession calls in flight at once.
MaxDeleteCalls == 1
\* Webhook dispatches in flight at once.
MaxInFlight == 2

\* ------------------------------------------------------------- value sets
Tenants == {"u1", "u2"}
QrCodes == {"qrA", "qrB"}
Reasons == {"LOGOUT", "NAVIGATION"}
Undefined == "undefined"
NoClient == 0

\* A directory entry name is a sequence of tokens; "session-" is the prefix
\* LocalAuth gives a tenant's credential directory.
SessionPrefix == "session-"
SessionDir(userId) == <<SessionPrefix, userId>>
DirNames == {SessionDir("u1"), SessionDir("u2"), <<"u2">>}

\* Rows of user_configs as dispatchWebhook selects them.
NoRow == [present |-> FALSE, webhook_url |-> "", webhook_trigger |-> ""]
Urls == {"", "http://hook"}
Triggers == {"", "incoming", "outgoing", "both", "all"}

VARIABLES
    clients,   \* ClientManager.clients: tenant -> client id, NoClient if absent
    lastQr,    \* ClientManager.lastQr: tenant -> latest QR, Undefined if absent
    handles,   \* every Client constructed so far: <<[userId, state, init, torn]>>
    del,       \* deleteSession call in flight per tenant: [pc, client]
    authDir,   \* names of the entries of .wwebjs_auth
    pcInit,    \* position of ClientManager.init()
    config,    \* user_configs: tenant -> row
    inflight,  \* dispatchWebhook calls in flight
    emitted,   \* events the last step sent through io.to(room).emit
    posted,    \* HTTP POSTs the last step started
    last       \* the last step: [op, userId, client, ret, data, fromMe, raised]

vars == <<clients, lastQr, handles, del, authDir, pcInit, config, inflight,
          emitted, posted, last>>

\* ---------------------------------------------------------------- helpers
Ev(room, event, data) == [room |-> room, event |-> event, data |-> data]

Step(op, userId, client, ret, data) ==
    [op |-> op, userId |-> userId, client |-> client, ret |-> ret,
     data |-> data, fromMe |-> FALSE, raised |-> FALSE]

NewClient(userId) ==
    [userId |-> userId, state |-> "INITIALIZING", init |-> "pending", torn |-> FALSE]

Idle == [pc |-> "idle", client |-> NoClient]

\* A client can raise signals until it has signalled disconnected or has
\* been destroyed.
Alive(h) == h \in 1..Len(handles) /\ handles[h].state \notin {"DISCONNECTED", "DESTROYED"}

\* session.ts:151  this.clients.has(userId)
HasClientNever(cl, userId) == FALSE
HasClient(cl, userId) == cl[userId] # NoClient

\* session.ts:145-147
EmitToEveryRoom(out, userId, event, data) ==
    Append(Append(out, Ev("u1", event, data)), Ev("u2", event, data))
EmitToUser(out, userId, event, data) == Append(out, Ev(userId, event, data))

\* --------------------------------------------------------- startClient
\* The synchronous part of startClient (session.ts:149-212, up to the
\* await of client.initialize()), as a function of the manager's state
\* st = [clients, handles, emitted, ret].
StartClientSyncRestart(st, userId) ==
    IF HasClient(st.clients, userId) /\ st.handles[st.clients[userId]].state = "CONNECTED"
    THEN [st EXCEPT !.emitted = EmitToUser(@, userId, "status", "CONNECTED"),
                    !.ret = st.clients[userId]]
    ELSE LET client == Len(st.handles) + 1 IN
         [clients |-> [st.clients EXCEPT ![userId] = client],
          handles |-> Append(st.handles, NewClient(userId)),
          emitted |-> EmitToUser(st.emitted, userId, "status", "INITIALIZING"),
          ret     |-> NoClient]
StartClientSyncReuse(st, userId) ==
    LET earlier == {h \in 1..Len(st.handles) : st.handles[h].userId = userId} IN
    IF HasClient(st.clients, userId)
    THEN [st EXCEPT !.emitted = EmitToUser(@, userId, "status", "CONNECTED"),
                    !.ret = st.clients[userId]]
    ELSE IF earlier # {}
    THEN [st EXCEPT !.clients = [@ EXCEPT ![userId] = CHOOSE h \in earlier : TRUE],
                    !.emitted = EmitToUser(@, userId, "status", "INITIALIZING")]
    ELSE LET client == Len(st.handles) + 1 IN
         [clients |-> [st.clients EXCEPT ![userId] = client],
          handles |-> Append(st.handles, NewClient(userId)),
          emitted |-> EmitToUser(st.emitted, userId, "status", "INITIALIZING"),
          ret     |-> NoClient]
StartClientSync(st, userId) ==
    IF HasClient(st.clients, userId)
    THEN [st EXCEPT !.emitted = EmitToUser(@, userId, "status", "CONNECTED"),
                    !.ret = st.clients[userId]]
    ELSE LET client == Len(st.handles) + 1 IN
         [clients |-> [st.clients EXCEPT ![userId] = client],
          handles |-> Append(st.handles, NewClient(userId)),
          emitted |-> EmitToUser(st.emitted, userId, "status", "INITIALIZING"),
          ret     |-> NoClient]

ManagerState == [clients |-> clients, handles |-> handles, emitted |-> <<>>, ret |-> NoClient]

\* POST /session/start (routes: session.ts:28-37) or any other caller.
StartClient(userId) ==
    LET st == StartClientSync(ManagerState, userId) IN
    /\ clients' = st.clients
    /\ handles' = st.handles
    /\ emitted' = st.emitted
    /\ last' = Step("startClient", userId, st.clients[userId], st.ret, "")
    /\ posted' = <<>>
    /\ UNCHANGED <<lastQr, del, authDir, pcInit, config, inflight>>

\* session.ts:211-218: client.initialize() resolves; startClient returns client.
InitializeOk(h) ==
    /\ h \in 1..Len(handles)
    /\ handles[h].init = "pending"
    /\ handles' = [handles EXCEPT ![h].init = "ok"]
    /\ emitted' = <<>>
    /\ last' = Step("initialize.ok", handles[h].userId, h, h, "")
    /\ posted' = <<>>
    /\ UNCHANGED <<clients, lastQr, del, authDir, pcInit, config, inflight>>

\* session.ts:213-218: client.initialize() rejects; the catch emits error.
InitializeFailUnregisters(h) ==
    /\ h \in 1..Len(handles)
    /\ handles[h].init = "pending"
    /\ handles' = [handles EXCEPT ![h].init = "failed"]
    /\ clients' = [clients EXCEPT ![handles[h].userId] = NoClient]
    /\ emitted' = EmitToUser(<<>>, handles[h].userId, "error", "Failed to initialize")
    /\ last' = Step("initialize.fail", handles[h].userId, h, h, "")
    /\ posted' = <<>>
    /\ UNCHANGED <<lastQr, del, authDir, pcInit, config, inflight>>
InitializeFail(h) ==
    /\ h \in 1..Len(handles)
    /\ handles[h].init = "pending"
    /\ handles' = [handles EXCEPT ![h].init = "failed"]
    /\ emitted' = EmitToUser(<<>>, handles[h].userId, "error", "Failed to initialize")
    /\ last' = Step("initialize.fail", handles[h].userId, h, h, "")
    /\ posted' = <<>>
    /\ UNCHANGED <<clients, lastQr, del, authDir, pcInit, config, inflight>>

\* ------------------------------------------------------ network signals
\* session.ts:183  this.lastQr.set(userId, qr)
SetQrIfAbsent(cache, userId, qr) ==
    IF cache[userId] = Undefined THEN [cache EXCEPT ![userId] = qr] ELSE cache
SetQr(cache, userId, qr) == [cache EXCEPT ![userId] = qr]

\* session.ts:189  this.lastQr.delete(userId)
ClearQrEveryTenant(cache, userId) == [t \in DOMAIN cache |-> Undefined]
ClearQr(cache, userId) == [cache EXCEPT ![userId] = Undefined]

\* session.ts:181-185
OnQrEmitsPrevious(h, qr) ==
    LET userId == handles[h].userId IN
    /\ Alive(h)
    /\ handles' = [handles EXCEPT ![h].state = "AWAITING_PAIRING"]
    /\ lastQr' = SetQr(lastQr, userId, qr)
    /\ emitted' = IF lastQr[userId] = Undefined THEN <<>>
                  ELSE EmitToUser(<<>>, userId, "qr", lastQr[userId])
    /\ last' = Step("qr", userId, h, NoClient, qr)
    /\ posted' = <<>>
    /\ UNCHANGED <<clients, del, authDir, pcInit, config, inflight>>
OnQr(h, qr) ==
    LET userId == handles[h].userId IN
    /\ Alive(h)
    /\ handles' = [handles EXCEPT ![h].state = "AWAITING_PAIRING"]
    /\ lastQr' = SetQr(lastQr, userId, qr)
    /\ emitted' = EmitToUser(<<>>, userId, "qr", qr)
    /\ last' = Step("qr", userId, h, NoClient, qr)
    /\ posted' = <<>>
    /\ UNCHANGED <<clients, del, authDir, pcInit, config, inflight>>

\* session.ts:187-192; last.data is the tenant's pairing cache as the first
\* event is emitted.
OnReadyStatusFirst(h) ==
    LET userId == handles[h].userId IN
    /\ Alive(h)
    /\ handles' = [handles EXCEPT ![h].state = "CONNECTED"]
    /\ lastQr' = ClearQr(lastQr, userId)
    /\ emitted' = EmitToUser(EmitToUser(<<>>, userId, "status", "CONNECTED"),
                             userId, "ready", "")
    /\ last' = Step("ready", userId, h, NoClient, ClearQr(lastQr, userId)[userId])
    /\ posted' = <<>>
    /\ UNCHANGED <<clients, del, authDir, pcInit, config, inflight>>
OnReady(h) ==
    LET userId == handles[h].userId IN
    /\ Alive(h)
    /\ handles' = [handles EXCEPT ![h].state = "CONNECTED"]
    /\ lastQr' = ClearQr(lastQr, userId)
    /\ emitted' = EmitToUser(EmitToUser(<<>>, userId, "ready", ""),
                             userId, "status", "CONNECTED")
    /\ last' = Step("ready", userId, h, NoClient, ClearQr(lastQr, userId)[userId])
    /\ posted' = <<>>
    /\ UNCHANGED <<clients, del, authDir, pcInit, config, inflight>>

\* session.ts:194-197
OnAuthFailureRemoves(h) ==
    LET userId == handles[h].userId IN
    /\ Alive(h)
    /\ handles' = [handles EXCEPT ![h].state = "AUTH_FAILED"]
    /\ clients' = [clients EXCEPT ![userId] = NoClient]
    /\ emitted' = EmitToUser(<<>>, userId, "error", "Auth failure")
    /\ last' = Step("auth_failure", userId, h, NoClient, "")
    /\ posted' = <<>>
    /\ UNCHANGED <<lastQr, del, authDir, pcInit, config, inflight>>
OnAuthFailure(h) ==
    LET userId == handles[h].userId IN
    /\ Alive(h)
    /\ handles' = [handles EXCEPT ![h].state = "AUTH_FAILED"]
    /\ emitted' = EmitToUser(<<>>, userId, "error", "Auth failure")
    /\ last' = Step("auth_failure", userId, h, NoClient, "")
    /\ posted' = <<>>
    /\ UNCHANGED <<clients, lastQr, del, authDir, pcInit, config, inflight>>

\* session.ts:206  this.clients.delete(userId)
RegistryDeleteIfSame(cl, userId, h) == IF cl[userId] = h THEN [cl EXCEPT ![userId] = NoClient] ELSE cl
RegistryDelete(cl, userId, h) == [cl EXCEPT ![userId] = NoClient]

\* session.ts:203-207
OnDisconnected(h, reason) ==
    LET userId == handles[h].userId IN
    /\ Alive(h)
    /\ handles' = [handles EXCEPT ![h].state = "DISCONNECTED"]
    /\ emitted' = EmitToUser(<<>>, userId, "disconnected", reason)
    /\ clients' = RegistryDelete(clients, userId, h)
    /\ last' = Step("disconnected", userId, h, NoClient, reason)
    /\ posted' = <<>>
    /\ UNCHANGED <<lastQr, del, authDir, pcInit, config, inflight>>

\* LocalAuth writes the tenant's credential directory while the client runs.
CredentialsWritten(h) ==
    /\ Alive(h)
    /\ SessionDir(handles[h].userId) \notin authDir
    /\ authDir' = authDir \cup {SessionDir(handles[h].userId)}
    /\ emitted' = <<>>
    /\ last' = Step("credentials", handles[h].userId, h, NoClient, "")
    /\ posted' = <<>>
    /\ UNCHANGED <<clients, lastQr, handles, del, pcInit, config, inflight>>

\* ------------------------------------------------------- read paths
\* session.ts:140-142, GET /session/qr (session.ts:21-25)
GetQr(userId) ==
    /\ last' = Step("getQr", userId, NoClient, NoClient, lastQr[userId])
    /\ emitted' = <<>>
    /\ posted' = <<>>
    /\ UNCHANGED <<clients, lastQr, handles, del, authDir, pcInit, config, inflight>>

\* session.ts:136-138
GetClient(userId) ==
    /\ last' = Step("getClient", userId, NoClient, clients[userId], "")
    /\ emitted' = <<>>
    /\ posted' = <<>>
    /\ UNCHANGED <<clients, lastQr, handles, del, authDir, pcInit, config, inflight>>

\* The public API (api.ts), for a request whose API key the middleware
\* (api.ts:12-26) resolved to userId.  The answer is sent after the await of
\* the client's call; nothing of the manager is read or written after
\* getClient, so the request is one step with either outcome of the call.
SendMessageResponse(client, hasNumber, ok) ==
    IF ~hasNumber THEN "Number is required"
    ELSE IF client = NoClient THEN "Session not active"
    ELSE IF ok THEN "success" ELSE "send failed"

\* api.ts:29-59  POST /send-message
SendMessageStartsSession(userId, hasNumber, ok) ==
    LET st == StartClientSync(ManagerState, userId) IN
    /\ clients' = st.clients
    /\ handles' = st.handles
    /\ last' = Step(IF hasNumber THEN "send-message" ELSE "send-message.noNumber",
                    userId, clients[userId], NoClient,
                    SendMessageResponse(clients[userId], hasNumber, ok))
    /\ emitted' = <<>>
    /\ posted' = <<>>
    /\ UNCHANGED <<lastQr, del, authDir, pcInit, config, inflight>>
SendMessage(userId, hasNumber, ok) ==
    /\ last' = Step(IF hasNumber THEN "send-message" ELSE "send-message.noNumber",
                    userId, clients[userId], NoClient,
                    SendMessageResponse(clients[userId], hasNumber, ok))
    /\ emitted' = <<>>
    /\ posted' = <<>>
    /\ UNCHANGED <<clients, lastQr, handles, del, authDir, pcInit, config, inflight>>

\* api.ts:62-74  GET /status: getState resolves or rejects (caught).
ApiStatus(userId, ok) ==
    /\ last' = Step("status", userId, clients[userId], NoClient,
                    IF clients[userId] # NoClient /\ ok THEN "CONNECTED" ELSE "DISCONNECTED")
    /\ emitted' = <<>>
    /\ posted' = <<>>
    /\ UNCHANGED <<clients, lastQr, handles, del, authDir, pcInit, config, inflight>>

\* -------------------------------------------------------- deleteSession
\* session.ts:221-225: fetch the client; with one, await client.logout(),
\* without one go on to the await of fs.pathExists (session.ts:233-234).
DeleteSessionBegin(userId) ==
    /\ del[userId].pc = "idle"
    /\ del' = [del EXCEPT ![userId] =
                 IF clients[userId] # NoClient
                 THEN [pc |-> "logout", client |-> clients[userId]]
                 ELSE [pc |-> "pathExists", client |-> NoClient]]
    /\ emitted' = <<>>
    /\ last' = Step("deleteSession", userId, clients[userId], NoClient, "")
    /\ posted' = <<>>
    /\ UNCHANGED <<clients, lastQr, handles, authDir, pcInit, config, inflight>>

\* session.ts:224-228: logout resolves or rejects (caught); destroy is called.
LogoutSettlesOrThrows(userId, ok) ==
    /\ del[userId].pc = "logout"
    /\ del' = [del EXCEPT ![userId] = IF ok THEN [@ EXCEPT !.pc = "destroy"] ELSE Idle]
    /\ emitted' = <<>>
    /\ last' = [Step(IF ok THEN "logout.ok" ELSE "logout.fail", userId,
                     del[userId].client, NoClient, "") EXCEPT !.raised = ~ok]
    /\ posted' = <<>>
    /\ UNCHANGED <<clients, lastQr, handles, authDir, pcInit, config, inflight>>
LogoutSettles(userId, ok) ==
    /\ del[userId].pc = "logout"
    /\ del' = [del EXCEPT ![userId].pc = "destroy"]
    /\ emitted' = <<>>
    /\ last' = Step(IF ok THEN "logout.ok" ELSE "logout.fail", userId,
                    del[userId].client, NoClient, "")
    /\ posted' = <<>>
    /\ UNCHANGED <<clients, lastQr, handles, authDir, pcInit, config, inflight>>

\* session.ts:227-234: destroy resolves or rejects (caught); the registry entry
\* of the tenant is deleted; fs.pathExists is awaited.
DestroySettlesRetries(userId, ok) ==
    LET h == del[userId].client IN
    /\ del[userId].pc = "destroy"
    /\ handles' = [handles EXCEPT ![h].state = IF ok THEN "DESTROYED" ELSE @,
                                   ![h].torn = TRUE]
    /\ clients' = IF ok THEN [clients EXCEPT ![userId] = NoClient] ELSE clients
    /\ del' = [del EXCEPT ![userId].pc = IF ok THEN "pathExists" ELSE "destroy"]
    /\ emitted' = <<>>
    /\ last' = Step(IF ok THEN "destroy.ok" ELSE "destroy.fail", userId, h, NoClient, "")
    /\ posted' = <<>>
    /\ UNCHANGED <<lastQr, authDir, pcInit, config, inflight>>
DestroySettles(userId, ok) ==
    LET h == del[userId].client IN
    /\ del[userId].pc = "destroy"
    /\ handles' = [handles EXCEPT ![h].state = IF ok THEN "DESTROYED" ELSE @,
                                   ![h].torn = TRUE]
    /\ clients' = [clients EXCEPT ![userId] = NoClient]
    /\ del' = [del EXCEPT ![userId].pc = "pathExists"]
    /\ emitted' = <<>>
    /\ last' = Step(IF ok THEN "destroy.ok" ELSE "destroy.fail", userId, h, NoClient, "")
    /\ posted' = <<>>
    /\ UNCHANGED <<lastQr, authDir, pcInit, config, inflight>>

\* session.ts:243, the last statement of deleteSession
DeleteSessionEndBroadcast(userId) ==
    EmitToUser(EmitToUser(<<>>, "u1", "disconnected", "logout"), "u2", "disconnected", "logout")
DeleteSessionEnd(userId) == EmitToUser(<<>>, userId, "disconnected", "logout")

\* session.ts:233-243: pathExists answers; with the directory present
\* fs.remove is awaited, otherwise deleteSession ends.
PathExistsSettles(userId) ==
    /\ del[userId].pc = "pathExists"
    /\ IF SessionDir(userId) \in authDir
       THEN /\ del' = [del EXCEPT ![userId].pc = "remove"]
            /\ emitted' = <<>>
            /\ last' = Step("pathExists", userId, del[userId].client, NoClient, "")
       ELSE /\ del' = [del EXCEPT ![userId] = Idle]
            /\ emitted' = DeleteSessionEnd(userId)
            /\ last' = Step("deleteSession.done", userId, del[userId].client, NoClient, "")
    /\ posted' = <<>>
    /\ UNCHANGED <<clients, lastQr, handles, authDir, pcInit, config, inflight>>

\* session.ts:236-243: fs.remove resolves or rejects (caught); deleteSession ends.
RemoveSettlesKeeps(userId, ok) ==
    /\ del[userId].pc = "remove"
    /\ authDir' = authDir
    /\ del' = [del EXCEPT ![userId] = Idle]
    /\ emitted' = DeleteSessionEnd(userId)
    /\ last' = Step("deleteSession.done", userId, del[userId].client, NoClient,
                    IF ok THEN "removed" ELSE "remove failed")
    /\ posted' = <<>>
    /\ UNCHANGED <<clients, lastQr, handles, pcInit, config, inflight>>
RemoveSettles(userId, ok) ==
    /\ del[userId].pc = "remove"
    /\ authDir' = IF ok THEN authDir \ {SessionDir(userId)} ELSE authDir
    /\ del' = [del EXCEPT ![userId] = Idle]
    /\ emitted' = DeleteSessionEnd(userId)
    /\ last' = Step("deleteSession.done", userId, del[userId].client, NoClient,
                    IF ok THEN "removed" ELSE "remove failed")
    /\ posted' = <<>>
    /\ UNCHANGED <<clients, lastQr, handles, pcInit, config, inflight>>

\* ------------------------------------------------------- recovery sweep
\* session.ts:123  item.startsWith('session-')
AnyEntry(item) == Len(item) >= 1
StartsWithPrefix(item) == Len(item) >= 1 /\ item[1] = SessionPrefix

\* String.prototype.replace with a string pattern: the first occurrence only.
RECURSIVE RemoveFirst(_, _)
RemoveFirst(item, token) ==
    IF item = <<>> THEN <<>>
    ELSE IF Head(item) = token THEN Tail(item)
    ELSE <<Head(item)>> \o RemoveFirst(Tail(item), token)

\* session.ts:124  item.replace('session-', ''); the names of DirNames leave
\* one token, the tenant identifier.
UserIdOf(item) == RemoveFirst(item, SessionPrefix)[1]

\* session.ts:122-130, the loop of init(): startClient is called and not awaited.
RECURSIVE RestoreFirstOnly(_, _)
RestoreFirstOnly(st, items) ==
    IF items = <<>> THEN st
    ELSE IF StartsWithPrefix(Head(items)) THEN StartClientSync(st, UserIdOf(Head(items)))
    ELSE RestoreFirstOnly(st, Tail(items))
RECURSIVE RestoreAll(_, _)
RestoreAll(st, items) ==
    IF items = <<>> THEN st
    ELSE RestoreAll(IF StartsWithPrefix(Head(items))
                    THEN StartClientSync(st, UserIdOf(Head(items)))
                    ELSE st,
                    Tail(items))

\* The orders in which readdir may list a set of names.
Listings(names) ==
    {s \in [1..Cardinality(names) -> names] : \A n \in names : \E i \in DOMAIN s : s[i] = n}

\* session.ts:116-118: fs.ensureDir resolves, or rejects and init() with it.
InitEnsureDir(ok) ==
    /\ pcInit = "ensureDir"
    /\ pcInit' = IF ok THEN "readdir" ELSE "failed"
    /\ emitted' = <<>>
    /\ last' = Step(IF ok THEN "init.ensureDir" ELSE "init.failed", "", NoClient, NoClient, "")
    /\ posted' = <<>>
    /\ UNCHANGED <<clients, lastQr, handles, del, authDir, config, inflight>>

\* session.ts:120-130: readdir resolves and the loop runs to its end.
InitSweep(items) ==
    LET st == RestoreAll(ManagerState, items) IN
    /\ pcInit = "readdir"
    /\ clients' = st.clients
    /\ handles' = st.handles
    /\ emitted' = st.emitted
    /\ pcInit' = "done"
    /\ last' = Step("init.sweep", "", NoClient, NoClient, "")
    /\ posted' = <<>>
    /\ UNCHANGED <<lastQr, del, authDir, config, inflight>>

\* session.ts:131-133: readdir rejects; the catch logs.
InitReaddirFails ==
    /\ pcInit = "readdir"
    /\ pcInit' = "done"
    /\ emitted' = <<>>
    /\ last' = Step("init.readdirFailed", "", NoClient, NoClient, "")
    /\ posted' = <<>>
    /\ UNCHANGED <<clients, lastQr, handles, del, authDir, config, inflight>>

\* ----------------------------------------------------- webhook dispatch
\* POST /session/config/webhook (session.ts:58-71): the upsert stores the body's
\* url and `webhook_trigger || 'incoming'`, or fails and stores nothing.
SaveWebhookConfig(userId, webhook_url, webhook_trigger, ok) ==
    /\ config' = IF ok
                 THEN [config EXCEPT ![userId] =
                         [present |-> TRUE, webhook_url |-> webhook_url,
                          webhook_trigger |-> IF webhook_trigger = "" THEN "incoming"
                                              ELSE webhook_trigger]]
                 ELSE config
    /\ emitted' = <<>>
    /\ last' = Step(IF ok THEN "config.saved" ELSE "config.failed", userId,
                    NoClient, NoClient, "")
    /\ posted' = <<>>
    /\ UNCHANGED <<clients, lastQr, handles, del, authDir, pcInit, inflight>>

\* session.ts:199-201 and 246-252: the message handler calls dispatchWebhook,
\* which awaits the lookup of the tenant's row.
OnMessageSerial(h, fromMe) ==
    LET d == [userId |-> handles[h].userId, fromMe |-> fromMe, pc |-> "lookup"] IN
    /\ Alive(h)
    /\ inflight = {}
    /\ inflight' = inflight \cup {d}
    /\ emitted' = <<>>
    /\ last' = [Step("message", handles[h].userId, h, NoClient, "") EXCEPT !.fromMe = fromMe]
    /\ posted' = <<>>
    /\ UNCHANGED <<clients, lastQr, handles, del, authDir, pcInit, config>>
OnMessage(h, fromMe) ==
    LET d == [userId |-> handles[h].userId, fromMe |-> fromMe, pc |-> "lookup"] IN
    /\ Alive(h)
    /\ inflight' = inflight \cup {d}
    /\ emitted' = <<>>
    /\ last' = [Step("message", handles[h].userId, h, NoClient, "") EXCEPT !.fromMe = fromMe]
    /\ posted' = <<>>
    /\ UNCHANGED <<clients, lastQr, handles, del, authDir, pcInit, config>>

\* What the awaited select ... .single() can give for a tenant: an exception,
\* {error}, {data: null}, or {data: row}.
RepliesCached(userId) ==
    {[threw |-> TRUE, error |-> FALSE, data |-> NoRow],
     [threw |-> FALSE, error |-> TRUE, data |-> NoRow],
     [threw |-> FALSE, error |-> FALSE, data |-> NoRow],
     [threw |-> FALSE, error |-> FALSE,
      data |-> [present |-> TRUE, webhook_url |-> "http://hook", webhook_trigger |-> "incoming"]]}
Replies(userId) ==
    {[threw |-> TRUE, error |-> FALSE, data |-> NoRow],
     [threw |-> FALSE, error |-> TRUE, data |-> NoRow],
     [threw |-> FALSE, error |-> FALSE, data |-> NoRow]}
    \cup (IF config[userId].present
          THEN {[threw |-> FALSE, error |-> FALSE, data |-> config[userId]]}
          ELSE {})

\* session.ts:256
TriggerOf(data) == IF data.webhook_trigger = "" THEN "incoming" ELSE data.webhook_trigger

\* session.ts:254-262: TRUE when dispatchWebhook goes on to the POST.
PassesNoUrlCheck(reply, isOutgoing) ==
    IF reply.threw \/ reply.error \/ ~reply.data.present THEN FALSE
    ELSE IF TriggerOf(reply.data) = "incoming" /\ isOutgoing THEN FALSE
    ELSE IF TriggerOf(reply.data) = "outgoing" /\ ~isOutgoing THEN FALSE
    ELSE TRUE
Passes(reply, isOutgoing) ==
    IF reply.threw THEN FALSE
    ELSE IF reply.error \/ ~reply.data.present \/ reply.data.webhook_url = "" THEN FALSE
    ELSE IF TriggerOf(reply.data) = "incoming" /\ isOutgoing THEN FALSE
    ELSE IF TriggerOf(reply.data) = "outgoing" /\ ~isOutgoing THEN FALSE
    ELSE TRUE

\* session.ts:247 and 280-282: an exception thrown inside the try is caught
\* and logged; TRUE when it leaves dispatchWebhook.
EscapesUncaught(threw) == threw
Escapes(threw) == FALSE

\* session.ts:248-278: the lookup settles; dispatchWebhook returns or starts
\* the POST.
LookupSettles(d, reply) ==
    /\ d \in inflight
    /\ d.pc = "lookup"
    /\ reply \in Replies(d.userId)
    /\ IF Passes(reply, d.fromMe)
       THEN /\ inflight' = (inflight \ {d}) \cup {[d EXCEPT !.pc = "post"]}
            /\ posted' = <<[url |-> reply.data.webhook_url, userId |-> d.userId,
                            fromMe |-> d.fromMe]>>
       ELSE /\ inflight' = inflight \ {d}
            /\ posted' = <<>>
    /\ emitted' = <<>>
    /\ last' = [Step("dispatch.lookup", d.userId, NoClient, NoClient,
                     IF reply.threw THEN "threw"
                     ELSE IF reply.error THEN "error"
                     ELSE IF ~reply.data.present THEN "no data"
                     ELSE IF reply.data.webhook_url = "" THEN "no url"
                     ELSE reply.data.webhook_trigger)
                EXCEPT !.raised = Escapes(reply.threw), !.fromMe = d.fromMe]
    /\ UNCHANGED <<clients, lastQr, handles, del, authDir, pcInit, config>>

\* session.ts:278-282: axios.post resolves or rejects (caught).
PostSettles(d, ok) ==
    /\ d \in inflight
    /\ d.pc = "post"
    /\ inflight' = inflight \ {d}
    /\ emitted' = <<>>
    /\ last' = [Step(IF ok THEN "dispatch.posted" ELSE "dispatch.postFailed",
                     d.userId, NoClient, NoClient, "")
                EXCEPT !.raised = Escapes(~ok), !.fromMe = d.fromMe]
    /\ posted' = <<>>
    /\ UNCHANGED <<clients, lastQr, handles, del, authDir, pcInit, config>>

\* ------------------------------------------------------- specifications
\* The state after `new ClientManager(io)` (session.ts:105-114, part_000:28).
InitManager ==
    /\ clients = [t \in Tenants |-> NoClient]
    /\ lastQr = [t \in Tenants |-> Undefined]
    /\ handles = <<>>
    /\ del = [t \in Tenants |-> Idle]
    /\ inflight = {}
    /\ emitted = <<>>
    /\ posted = <<>>
    /\ last = Step("new", "", NoClient, NoClient, "")

NoConfig == [t \in Tenants |-> NoRow]

\* The manager right after construction, with nothing persisted: the recovery
\* sweep found no session and no tenant has a webhook row.
Init ==
    /\ InitManager
    /\ authDir = {}
    /\ pcInit = "done"
    /\ config = NoConfig

Clients == 1..Len(handles)

Signals ==
    \E h \in Clients :
        \/ \E qr \in QrCodes : OnQr(h, qr)
        \/ OnReady(h)
        \/ OnAuthFailure(h)
        \/ \E reason \in Reasons : OnDisconnected(h, reason)

Starts(n) ==
    \/ \E userId \in Tenants : StartClient(userId) /\ Len(handles') <= n
    \/ \E h \in Clients : InitializeOk(h)
    \/ \E h \in Clients : InitializeFail(h)

DeletesInFlight == Cardinality({t \in Tenants : del[t].pc # "idle"})

Deletes ==
    \E userId \in Tenants :
        \/ DeleteSessionBegin(userId) /\ DeletesInFlight < MaxDeleteCalls
        \/ \E ok \in BOOLEAN : LogoutSettles(userId, ok)
        \/ \E ok \in BOOLEAN : DestroySettles(userId, ok)
        \/ PathExistsSettles(userId)
        \/ \E ok \in BOOLEAN : RemoveSettles(userId, ok)

\* The registry under start, disconnection and logout.
Next ==
    \/ \E userId \in Tenants : StartClient(userId) /\ Len(handles') <= MaxRegistryHandles
    \/ \E h \in Clients : \E reason \in Reasons : OnDisconnected(h, reason)
    \/ Deletes
    \/ \E h \in Clients : CredentialsWritten(h)

Spec == Init /\ [][Next]_vars

\* Concurrent starts: start requests, initialization and the signals that do
\* not remove the client.
NextStart ==
    \/ Starts(MaxHandles)
    \/ \E h \in Clients :
        \/ \E qr \in QrCodes : OnQr(h, qr)
        \/ OnReady(h)
        \/ OnAuthFailure(h)

SpecStart == Init /\ [][NextStart]_vars

\* The session lifecycle: start requests, every signal of the network client,
\* and the polling read of the pairing cache.
NextLifecycle ==
    \/ Starts(MaxHandles)
    \/ Signals
    \/ \E userId \in Tenants : GetQr(userId)

SpecLifecycle == Init /\ [][NextLifecycle]_vars

\* The pairing cache and the registry under start requests, pairing, ready
\* and disconnected signals, logout and the polling read.  No credential
\* directory exists (Init) and none is written, so fs.remove is never reached.
NextPairing ==
    \/ \E userId \in Tenants : StartClient(userId) /\ Len(handles') <= MaxHandles
    \/ \E h \in Clients :
        \/ \E qr \in QrCodes : OnQr(h, qr)
        \/ OnReady(h)
        \/ \E reason \in Reasons : OnDisconnected(h, reason)
    \/ \E userId \in Tenants :
        \/ DeleteSessionBegin(userId) /\ DeletesInFlight < MaxDeleteCalls
        \/ \E ok \in BOOLEAN : LogoutSettles(userId, ok)
        \/ \E ok \in BOOLEAN : DestroySettles(userId, ok)
        \/ PathExistsSettles(userId)
    \/ \E userId \in Tenants : GetQr(userId)

SpecPairing == Init /\ [][NextPairing]_vars

\* Webhook dispatch: sessions start, messages arrive, the config route rewrites
\* rows, lookups and POSTs settle.  At most MaxInFlight dispatches are in
\* flight, no two of them for the same tenant, direction and position.
NextWebhook ==
    \/ \E userId \in Tenants : StartClient(userId) /\ Len(handles') <= MaxHandles
    \/ \E h \in Clients : \E fromMe \in BOOLEAN :
          /\ OnMessage(h, fromMe)
          /\ Cardinality(inflight') > Cardinality(inflight)
          /\ Cardinality(inflight') <= MaxInFlight
    \/ \E userId \in Tenants, url \in Urls, trigger \in Triggers, ok \in BOOLEAN :
          SaveWebhookConfig(userId, url, trigger, ok)
    \/ \E d \in inflight :
        \/ \E reply \in Replies(d.userId) :
              /\ LookupSettles(d, reply)
              /\ posted' # <<>> => Cardinality(inflight') = Cardinality(inflight)
        \/ \E ok \in BOOLEAN : PostSettles(d, ok)

SpecWebhook == Init /\ [][NextWebhook]_vars

\* Process start with any persisted credential store: init() runs, the
\* clients it starts initialize, pair and connect.
InitRecovery ==
    /\ InitManager
    /\ authDir \in SUBSET DirNames
    /\ pcInit = "ensureDir"
    /\ config = NoConfig

NextRecovery ==
    \/ \E ok \in BOOLEAN : InitEnsureDir(ok)
    \/ \E items \in Listings(authDir) : InitSweep(items) /\ Len(handles') <= MaxHandles
    \/ InitReaddirFails
    \/ \E h \in Clients :
        \/ InitializeOk(h)
        \/ InitializeFail(h)
        \/ \E qr \in QrCodes : OnQr(h, qr)
        \/ OnReady(h)

SpecRecovery == InitRecovery /\ [][NextRecovery]_vars

\* Logout: sessions start, write their credential directory, fail
\* authentication or disconnect; deleteSession runs through every step,
\* each of which may fail; the API reads the registry.
NextLogout ==
    \/ \E userId \in Tenants : StartClient(userId) /\ Len(handles') <= MaxHandles
    \/ \E h \in Clients :
        \/ OnAuthFailure(h)
        \/ \E reason \in Reasons : OnDisconnected(h, reason)
        \/ CredentialsWritten(h)
    \/ Deletes
    \/ \E userId \in Tenants : GetClient(userId)

SpecLogout == Init /\ [][NextLogout]_vars

\* The sources of push events: start requests, every signal of the network
\* client, and deleteSession.  Teardown succeeds here and no credential
\* directory exists (Init), so fs.remove is not reached; failing teardown is
\* the subject of SpecLogout, failing initialization of SpecLifecycle.
NextRouting ==
    \/ \E userId \in Tenants : StartClient(userId) /\ Len(handles') <= MaxHandles
    \/ Signals
    \/ \E userId \in Tenants :
        \/ DeleteSessionBegin(userId) /\ DeletesInFlight < MaxDeleteCalls
        \/ LogoutSettles(userId, TRUE)
        \/ DestroySettles(userId, TRUE)
        \/ PathExistsSettles(userId)

SpecRouting == Init /\ [][NextRouting]_vars

\* The read paths: the polling read of the pairing cache, getClient and the
\* two API routes, among start requests and pairing, ready and disconnected
\* signals.
NextApi ==
    \/ \E userId \in Tenants : StartClient(userId) /\ Len(handles') <= MaxHandles
    \/ \E h \in Clients :
        \/ \E qr \in QrCodes : OnQr(h, qr)
        \/ OnReady(h)
        \/ \E reason \in Reasons : OnDisconnected(h, reason)
    \/ \E userId \in Tenants :
        \/ GetQr(userId)
        \/ GetClient(userId)
        \/ \E hasNumber \in BOOLEAN, ok \in BOOLEAN : SendMessage(userId, hasNumber, ok)
        \/ \E ok \in BOOLEAN : ApiStatus(userId, ok)

SpecApi == Init /\ [][NextApi]_vars

\* Everything startClient sets going for a tenant: start requests, failing
\* initializations, every signal of the network client and its messages, whose
\* dispatches stay in flight.
NextIsolation ==
    \/ \E userId \in Tenants : StartClient(userId) /\ Len(handles') <= MaxHandles
    \/ \E h \in Clients : InitializeFail(h)
    \/ Signals
    \/ \E h \in Clients : \E fromMe \in BOOLEAN :
          /\ OnMessage(h, fromMe)
          /\ Cardinality(inflight') > Cardinality(inflight)
          /\ Cardinality(inflight') <= MaxInFlight

SpecIsolation == Init /\ [][NextIsolation]_vars

\* Teardown to its end: sessions start, write their credential directory and
\* disconnect, and deleteSession runs; every call deleteSession awaits -
\* logout, destroy, fs.pathExists, fs.remove - settles in the end, one way or
\* the other.
NextTeardown ==
    \/ \E userId \in Tenants : StartClient(userId) /\ Len(handles') <= MaxHandles
    \/ \E h \in Clients :
        \/ \E reason \in Reasons : OnDisconnected(h, reason)
        \/ CredentialsWritten(h)
    \/ Deletes

AwaitedCallsSettle ==
    \A userId \in Tenants :
        /\ WF_vars(\E ok \in BOOLEAN : LogoutSettles(userId, ok))
        /\ WF_vars(\E ok \in BOOLEAN : DestroySettles(userId, ok))
        /\ WF_vars(PathExistsSettles(userId))
        /\ WF_vars(\E ok \in BOOLEAN : RemoveSettles(userId, ok))

SpecTeardown == Init /\ [][NextTeardown]_vars /\ AwaitedCallsSettle

\* ================================================================ claims
ClientsOf(t) == {h \in Clients : handles[h].userId = t}

\* A client that has been created and has neither signalled disconnected nor
\* been through the teardown of deleteSession.
Live(h) == Alive(h) /\ ~handles[h].torn

StartReturned == last.op \in {"startClient", "initialize.ok", "initialize.fail"}

\* C1: under any interleaving of startClient calls for a tenant (with
\* initialization and the pairing signals still to come), after a start exactly
\* one client has been created for the tenant, it is the registered one, and
\* every startClient call that returns, returns it.
C1_ConcurrentStartsShareOneHandle ==
    \A t \in Tenants :
        /\ Cardinality(ClientsOf(t)) <= 1
        /\ ClientsOf(t) # {} => clients[t] \in ClientsOf(t)
        /\ (StartReturned /\ last.userId = t) =>
              /\ ClientsOf(t) = {last.client}
              /\ last.ret # NoClient => last.ret = clients[t]

\* A second startClient returned the first call's client while that call is
\* still awaiting initialize and no pairing challenge has arrived.
C1_Witness ==
    /\ last.op = "startClient"
    /\ last.ret # NoClient
    /\ handles[last.ret].init = "pending"
    /\ handles[last.ret].state = "INITIALIZING"
    /\ lastQr[last.userId] = Undefined

\* C2: in every reachable state, each tenant has at most one live client.
C2_AtMostOneLiveHandle ==
    \A t \in Tenants : Cardinality({h \in ClientsOf(t) : Live(h)}) <= 1

C4_DisconnectedRemovesTenant ==
    last.op = "disconnected" =>
        /\ emitted = <<Ev(last.userId, "disconnected", last.data)>>
        /\ clients[last.userId] = NoClient

\* A client that deleteSession had dropped from the registry without destroying
\* it signals disconnected after a newer client was started for the tenant.
C4_Witness ==
    /\ last.op = "disconnected"
    /\ handles[last.client].torn
    /\ \E h \in ClientsOf(last.userId) : h # last.client /\ Live(h)
    /\ clients[last.userId] = NoClient

\* C5: the pairing cache of a tenant changes only in the handler of a qr signal
\* of the tenant, which sets it to the signal's challenge whatever it held, and
\* in the handler of a ready signal of the tenant, which clears it; getQr
\* returns the cache.
C5_PairingCacheSetByQrClearedByReady ==
    [][
        /\ \A t \in Tenants :
              lastQr'[t] # lastQr[t] =>
                  (last'.userId = t /\ last'.op \in {"qr", "ready"})
        /\ (last'.op = "qr" => lastQr'[last'.userId] = last'.data)
        /\ (last'.op = "ready" => lastQr'[last'.userId] = Undefined)
        /\ (last'.op = "getQr" => last'.data = lastQr[last'.userId])
    ]_vars

\* getQr returns the second of two challenges of a tenant.
C5_Witness ==
    /\ last.op = "getQr"
    /\ last.data = "qrB"
    /\ \E h \in Clients : handles[h].userId = last.userId /\ handles[h].state = "DISCONNECTED"

\* C6: after a disconnected signal of a tenant, and after deleteSession of the
\* tenant has completed, the tenant's pairing cache is absent.
C6_PairingCacheClearedOnRemoval ==
    last.op \in {"disconnected", "deleteSession.done"} => lastQr[last.userId] = Undefined

DispatchSteps == {"dispatch.lookup", "dispatch.posted", "dispatch.postFailed"}
NoRowLoaded == {"threw", "error", "no data", "no url"}

\* C7: when the lookup of a message event gives the tenant's row and the row
\* has a URL, a POST is started iff the trigger is incoming and the message
\* inbound, or the trigger is outgoing and the message outbound, or the trigger
\* is both.
C7_TriggerFilter ==
    (last.op = "dispatch.lookup" /\ last.data \notin NoRowLoaded) =>
        (posted # <<>> <=>
            \/ last.data = "incoming" /\ ~last.fromMe
            \/ last.data = "outgoing" /\ last.fromMe
            \/ last.data = "both")

\* C8: when the lookup of a message event finds no row, fails, or gives a row
\* with no URL, no POST is started, then or later, for that message, and nothing
\* is raised to the message handler.
C8_NoWebhookNoDelivery ==
    [][(last'.op = "dispatch.lookup" /\ last'.data \in NoRowLoaded) =>
          /\ posted' = <<>>
          /\ ~last'.raised
          /\ {d \in inflight' : d.pc = "post"} \subseteq inflight]_vars

\* A message of a tenant with no row: the lookup settled and nothing was posted.
C8_Witness ==
    /\ last.op = "dispatch.lookup"
    /\ ~config[last.userId].present
    /\ last.data \in {"error", "no data"}
    /\ posted = <<>>

\* C9: no step of dispatchWebhook, whether the lookup or the POST succeeds or
\* fails, raises to the message handler, changes the registry, the pairing
\* cache or any client, or emits an event.
C9_DispatchFailureSwallowed ==
    [][last'.op \in DispatchSteps \cup {"message"} =>
          /\ ~last'.raised
          /\ clients' = clients
          /\ lastQr' = lastQr
          /\ handles' = handles
          /\ emitted' = <<>>]_vars

\* The POST of a message of a tenant with a registered client failed while
\* another dispatch is in flight.
C9_Witness ==
    /\ last.op = "dispatch.postFailed"
    /\ ~last.raised
    /\ clients[last.userId] # NoClient
    /\ Alive(clients[last.userId])
    /\ inflight # {}

\* C10: the recovery sweep leaves a registered client for every tenant whose
\* credential directory it listed, and the failure of one client's initialize
\* changes neither the registry, nor the sweep, nor any other client.
C10_RecoveryIsolation ==
    [][
        /\ last'.op = "init.sweep" =>
              \A t \in Tenants :
                  SessionDir(t) \in authDir =>
                      (clients'[t] # NoClient /\ handles'[clients'[t]].userId = t)
        /\ last'.op = "initialize.fail" =>
              /\ clients' = clients
              /\ pcInit' = pcInit
              /\ Len(handles') = Len(handles)
              /\ \A h \in Clients : h # last'.client => handles'[h] = handles[h]
    ]_vars

\* After a sweep over the directories of two tenants, one tenant's client has
\* failed to initialize and the other's is registered and connected.
C10_Witness ==
    /\ pcInit = "done"
    /\ \E a, b \in Clients :
        /\ handles[a].userId # handles[b].userId
        /\ handles[b].init = "failed"
        /\ clients[handles[a].userId] = a
        /\ handles[a].state = "CONNECTED"
        /\ {SessionDir(handles[a].userId), SessionDir(handles[b].userId)} \subseteq authDir

\* C11: the handler of an authentication-failure signal of a tenant's client
\* emits one error event to the tenant and leaves the registry as it was; a
\* registered client leaves the registry only in the handler of a disconnected
\* signal of the tenant or in a deleteSession of the tenant, and until then
\* getClient returns it.
C11_AuthFailureKeepsClientRegistered ==
    [][
        /\ last'.op = "auth_failure" =>
              /\ emitted' = <<Ev(last'.userId, "error", "Auth failure")>>
              /\ clients' = clients
        /\ \A t \in Tenants :
              (clients[t] # NoClient /\ clients'[t] # clients[t]) =>
                  /\ last'.userId = t
                  /\ last'.op \in {"disconnected", "destroy.ok", "destroy.fail"}
        /\ last'.op = "getClient" => last'.ret = clients[last'.userId]
    ]_vars

\* getClient returns a tenant's client after it failed authentication.
C11_Witness ==
    /\ last.op = "getClient"
    /\ last.ret # NoClient
    /\ last.ret = clients[last.userId]
    /\ handles[last.ret].state = "AUTH_FAILED"

SignalSteps == {"qr", "ready", "auth_failure", "disconnected"}
ClientSteps == SignalSteps \cup {"initialize.ok", "initialize.fail"}

\* C12: every event a step emits is addressed to the room of the tenant the
\* step ran for - the tenant startClient or deleteSession was called with, or
\* the tenant the signalling or initializing client was created for - and to
\* no other room, so no step for another tenant emits to a tenant's room.
C12_EventsRoutedToOwnTenant ==
    /\ \A i \in DOMAIN emitted : emitted[i].room = last.userId
    /\ last.op \in ClientSteps => handles[last.client].userId = last.userId

\* A tenant's client signals disconnected while the other tenant has a
\* connected client and a logout in flight.
C12_Witness ==
    /\ last.op = "disconnected"
    /\ emitted # <<>>
    /\ \E t \in Tenants :
        /\ t # last.userId
        /\ clients[t] # NoClient
        /\ handles[clients[t]].state = "CONNECTED"
        /\ del[t].pc = "destroy"

\* C13: deleteSession goes through every step whatever fails.  After a failed
\* logout, destroy is called; after destroy, failed or not, the tenant's
\* registry entry is deleted and the credential directory looked for; after
\* the directory's removal, failed or not, or with no directory, the call ends
\* by emitting disconnected{logout}; the client the call fetched is then not
\* registered, and no step raises to the caller.
C13_TeardownIsBestEffort ==
    [][
        /\ last'.op \in {"logout.ok", "logout.fail"} =>
              /\ del'[last'.userId].pc = "destroy"
              /\ ~last'.raised
        /\ last'.op \in {"destroy.ok", "destroy.fail"} =>
              /\ clients'[last'.userId] = NoClient
              /\ del'[last'.userId].pc = "pathExists"
              /\ ~last'.raised
        /\ last'.op = "pathExists" =>
              /\ del'[last'.userId].pc = "remove"
              /\ ~last'.raised
        /\ last'.op = "deleteSession.done" =>
              /\ del[last'.userId].pc \in {"pathExists", "remove"}
              /\ del'[last'.userId] = Idle
              /\ emitted' = <<Ev(last'.userId, "disconnected", "logout")>>
              /\ last'.client # NoClient => clients'[last'.userId] # last'.client
              /\ ~last'.raised
    ]_vars

\* deleteSession ended after destroy and the removal of the credential
\* directory both failed: the client is still running, the directory still
\* there, and the tenant is absent from the registry.
C13_Witness ==
    /\ last.op = "deleteSession.done"
    /\ last.data = "remove failed"
    /\ last.client # NoClient
    /\ handles[last.client].torn
    /\ Alive(last.client)
    /\ SessionDir(last.userId) \in authDir
    /\ clients[last.userId] = NoClient

DeleteSteps ==
    {"deleteSession", "logout.ok", "logout.fail", "destroy.ok", "destroy.fail",
     "pathExists", "deleteSession.done"}

\* C14: no step of deleteSession of a tenant changes the registry entry, the
\* pairing cache or the credential directory of another tenant, or emits an
\* event to another tenant's room.
C14_LogoutTouchesOneTenant ==
    [][last'.op \in DeleteSteps =>
          /\ \A t \in Tenants \ {last'.userId} :
                /\ clients'[t] = clients[t]
                /\ lastQr'[t] = lastQr[t]
                /\ (SessionDir(t) \in authDir') = (SessionDir(t) \in authDir)
          /\ \A i \in DOMAIN emitted' : emitted'[i].room = last'.userId]_vars

\* deleteSession of a tenant ended with its directory removed, while the
\* other tenant has a registered, running client and its credential directory.
C14_Witness ==
    /\ last.op = "deleteSession.done"
    /\ last.data = "removed"
    /\ last.client # NoClient
    /\ \E t \in Tenants :
        /\ t # last.userId
        /\ clients[t] # NoClient
        /\ Alive(clients[t])
        /\ SessionDir(t) \in authDir

\* C15: while a dispatch of a tenant is in flight, awaiting its lookup or its
\* POST, every operation of every other tenant can take its step: a start
\* request, a deleteSession, each signal and each message of a running client,
\* and the settling of that tenant's own lookups and POSTs.
C15_DispatchBlocksNoOtherTenant ==
    \A d \in inflight : \A t \in Tenants \ {d.userId} :
        /\ ENABLED StartClient(t)
        /\ del[t].pc = "idle" => ENABLED DeleteSessionBegin(t)
        /\ \A h \in ClientsOf(t) :
              Alive(h) =>
                  /\ \A fromMe \in BOOLEAN : ENABLED OnMessage(h, fromMe)
                  /\ \A qr \in QrCodes : ENABLED OnQr(h, qr)
                  /\ ENABLED OnReady(h)
                  /\ ENABLED OnAuthFailure(h)
                  /\ \A reason \in Reasons : ENABLED OnDisconnected(h, reason)
        /\ \A e \in inflight :
              e.userId = t =>
                  /\ e.pc = "lookup" => \A reply \in Replies(t) : ENABLED LookupSettles(e, reply)
                  /\ e.pc = "post" => \A ok \in BOOLEAN : ENABLED PostSettles(e, ok)

\* A message of a tenant was delivered, from its arrival to the answer of the
\* endpoint, while the POST of another tenant's message is still unanswered.
C15_Witness ==
    /\ last.op = "dispatch.posted"
    /\ \E d \in inflight : d.userId # last.userId /\ d.pc = "post"

\* The answer of a lookup that finds the row the store holds for a tenant now.
StoredReply(userId) == [threw |-> FALSE, error |-> FALSE, data |-> config[userId]]

\* C16: the decision of every dispatch is taken on the row the config store
\* holds for the tenant when the lookup of that message settles: a lookup that
\* loads a row loads the stored URL and trigger, and then a POST is started
\* iff the stored row passes, to the stored URL - whatever rows the tenant had
\* before.
C16_ConfigReadPerMessage ==
    [][last'.op = "dispatch.lookup" =>
          LET row == config[last'.userId] IN
          /\ last'.data \notin {"threw", "error", "no data"} =>
                /\ row.present
                /\ (last'.data = "no url") = (row.webhook_url = "")
                /\ last'.data # "no url" => last'.data = row.webhook_trigger
                /\ (posted' # <<>>) = Passes(StoredReply(last'.userId), last'.fromMe)
          /\ posted' # <<>> =>
                /\ last'.data \notin NoRowLoaded
                /\ posted'[1].url = row.webhook_url]_vars

\* An inbound message of a tenant was passed to the endpoint, whose answer is
\* pending; the tenant's trigger was then set to outgoing, and the next
\* inbound message, of the same client, is not delivered.
C16_Witness ==
    /\ last.op = "dispatch.lookup"
    /\ ~last.fromMe
    /\ last.data = "outgoing"
    /\ posted = <<>>
    /\ [userId |-> last.userId, fromMe |-> FALSE, pc |-> "post"] \in inflight
    /\ Cardinality(ClientsOf(last.userId)) = 1

\* The push events of a signal with payload data, for the tenant's room.
PushOf(op, userId, data) ==
    CASE op = "qr" -> <<Ev(userId, "qr", data)>>
      [] op = "ready" -> <<Ev(userId, "ready", ""), Ev(userId, "status", "CONNECTED")>>
      [] op = "auth_failure" -> <<Ev(userId, "error", "Auth failure")>>
      [] op = "disconnected" -> <<Ev(userId, "disconnected", data)>>

IsSignalPush(e) ==
    \/ e.event \in {"qr", "ready"}
    \/ e.event = "error" /\ e.data = "Auth failure"
    \/ e.event = "disconnected" /\ e.data \in Reasons

\* C17: the handler of a qr, ready, auth_failure or disconnected signal emits
\* the signal's push events, to the tenant's room, in the step in which the
\* signal arrives, and no other step emits a qr, ready, authentication-error
\* or disconnected{reason} event; so the pushes of a tenant's signals reach its
\* room in the order of the signals.
C17_SignalsPushedInOrder ==
    /\ last.op \in SignalSteps =>
          emitted = PushOf(last.op, handles[last.client].userId, last.data)
    /\ last.op \notin SignalSteps =>
          \A i \in DOMAIN emitted : ~IsSignalPush(emitted[i])

\* A client signals authentication failure after a second pairing challenge
\* and a failed initialize.
C17_Witness ==
    /\ last.op = "auth_failure"
    /\ lastQr[last.userId] = "qrB"
    /\ handles[last.client].init = "failed"
    /\ emitted = <<Ev(last.userId, "error", "Auth failure")>>

\* C18: the handler of a ready signal of a tenant's client has cleared the
\* tenant's pairing cache when it emits, and emits exactly ready{} and then
\* status{CONNECTED}, both to the tenant.
C18_ReadyClearsThenEmits ==
    last.op = "ready" =>
        /\ last.data = Undefined
        /\ lastQr[last.userId] = Undefined
        /\ Len(emitted) = 2
        /\ emitted[1] = Ev(last.userId, "ready", "")
        /\ emitted[2] = Ev(last.userId, "status", "CONNECTED")

\* A client of a tenant became ready while the other tenant's pairing
\* challenge is still cached.
C18_Witness ==
    /\ last.op = "ready"
    /\ handles[last.client].state = "CONNECTED"
    /\ handles[last.client].init = "ok"
    /\ \E t \in Tenants : t # last.userId /\ lastQr[t] # Undefined

\* C19: a startClient for a tenant absent from the registry constructs one
\* client, different from every client constructed before, and by the time it
\* awaits initialize has registered it and emitted status{INITIALIZING} to the
\* tenant and nothing else; the new client has then raised no signal and its
\* initialize is pending, and the earlier clients are as they were.
C19_AbsentTenantGetsFreshClient ==
    [][\A t \in Tenants :
          (clients[t] = NoClient /\ last'.op = "startClient" /\ last'.userId = t) =>
              /\ Len(handles') = Len(handles) + 1
              /\ SubSeq(handles', 1, Len(handles)) = handles
              /\ clients'[t] = Len(handles')
              /\ clients'[t] \notin Clients
              /\ handles'[clients'[t]] = NewClient(t)
              /\ emitted' = <<Ev(t, "status", "INITIALIZING")>>
              /\ last'.ret = NoClient]_vars

\* A tenant whose client signalled disconnected was started again: the
\* registered client is the new one.
C19_Witness ==
    /\ last.op = "startClient"
    /\ last.ret = NoClient
    /\ clients[last.userId] = Len(handles)
    /\ handles[Len(handles)] = NewClient(last.userId)
    /\ \E h \in ClientsOf(last.userId) :
          h # Len(handles) /\ handles[h].state = "DISCONNECTED"

\* The entries of the credential directory that begin with the session prefix.
SessionEntries == {item \in authDir : item # <<>> /\ Head(item) = SessionPrefix}

\* C20: the sweep of init() calls startClient once for each entry of the
\* credential directory that begins with the session prefix, with the entry's
\* name less the prefix as tenant - the tenant whose credential directory has
\* that name - and for no other entry: it emits one status event per such
\* entry, to that tenant, leaves every such tenant with a registered client of
\* its own, and leaves every other tenant's registry entry as it was.
C20_SweepStartsSessionEntries ==
    [][last'.op = "init.sweep" =>
          LET swept == {t \in Tenants : SessionDir(t) \in SessionEntries} IN
          /\ \A item \in SessionEntries :
                /\ SessionDir(UserIdOf(item)) = item
                /\ UserIdOf(item) \in swept
          /\ Len(emitted') = Cardinality(SessionEntries)
          /\ {emitted'[i].room : i \in DOMAIN emitted'} = swept
          /\ \A i \in DOMAIN emitted' : emitted'[i].event = "status"
          /\ \A t \in swept :
                /\ clients'[t] # NoClient
                /\ handles'[clients'[t]].userId = t
          /\ \A t \in Tenants \ swept : clients'[t] = clients[t]
          /\ Len(handles') = Len(handles) +
                Cardinality({t \in swept : clients[t] = NoClient})]_vars

\* The sweep ran over a directory holding one tenant's session directory and
\* an entry named after the other tenant without the prefix: the first tenant
\* has a client, the second has none.
C20_Witness ==
    /\ last.op = "init.sweep"
    /\ SessionDir("u1") \in authDir
    /\ <<"u2">> \in authDir
    /\ SessionDir("u2") \notin authDir
    /\ clients["u1"] # NoClient
    /\ clients["u2"] = NoClient
    /\ emitted = <<Ev("u1", "status", "INITIALIZING")>>

\* C21: once a client's latest signal was an authentication failure or a
\* disconnection, the handler of a later signal of that client emits no qr,
\* ready or status{CONNECTED} event and does not set the pairing cache.
C21_AuthFailedAndDisconnectedAreTerminal ==
    [][(/\ last'.op \in SignalSteps
        /\ handles[last'.client].state \in {"AUTH_FAILED", "DISCONNECTED"}) =>
          /\ \A i \in DOMAIN emitted' :
                /\ emitted'[i].event \notin {"qr", "ready"}
                /\ emitted'[i] # Ev(last'.userId, "status", "CONNECTED")
          /\ \/ lastQr'[last'.userId] = lastQr[last'.userId]
             \/ lastQr'[last'.userId] = Undefined]_vars

\* C22: when every call deleteSession awaits settles in the end, every
\* deleteSession call of a tenant comes to its end: its last step emits
\* disconnected{logout} to the tenant and nothing else, and the client the
\* call had fetched is then not the tenant's registered client.
C22_DeleteSessionTerminates ==
    \A t \in Tenants :
        (del[t].pc # "idle") ~>
            (/\ del[t].pc = "idle"
             /\ last.op = "deleteSession.done"
             /\ last.userId = t
             /\ emitted = <<Ev(t, "disconnected", "logout")>>
             /\ last.client # NoClient => clients[t] # last.client)

\* A deleteSession that had fetched a client came to its end after the
\* removal of the credential directory failed.
C22_Witness ==
    /\ last.op = "deleteSession.done"
    /\ last.client # NoClient
    /\ last.data = "remove failed"
    /\ del[last.userId].pc = "idle"
    /\ emitted = <<Ev(last.userId, "disconnected", "logout")>>

\* What every step of a deleteSession call that fetched no client does: it is
\* no logout or destroy step, raises nothing, leaves the registry and every
\* client as they were, and the last step emits disconnected{logout} to the
\* tenant and nothing else.
NoClientCallStep ==
    /\ last'.op \notin {"logout.ok", "logout.fail", "destroy.ok", "destroy.fail"}
    /\ ~last'.raised
    /\ clients' = clients
    /\ handles' = handles
    /\ last'.op = "deleteSession" => del'[last'.userId].pc = "pathExists"
    /\ last'.op = "deleteSession.done" =>
          emitted' = <<Ev(last'.userId, "disconnected", "logout")>>

\* C23: a deleteSession of a tenant with no registered client raises nothing,
\* calls neither logout nor destroy, leaves the registry unchanged, emits
\* disconnected{logout} to the tenant, and at its end the tenant's credential
\* directory is absent.
C23_DeleteSessionIdempotent ==
    [][(last'.op \in DeleteSteps /\ last'.client = NoClient) =>
          /\ NoClientCallStep
          /\ last'.op = "deleteSession.done" =>
                SessionDir(last'.userId) \notin authDir']_vars

\* C23, amended: as above, and at the end of the call the tenant's credential
\* directory is absent unless its removal failed.
C23_DeleteSessionIdempotentUnlessRemoveFails ==
    [][(last'.op \in DeleteSteps /\ last'.client = NoClient) =>
          /\ NoClientCallStep
          /\ last'.op = "deleteSession.done" =>
                \/ SessionDir(last'.userId) \notin authDir'
                \/ last'.data = "remove failed"]_vars

\* A second deleteSession of a tenant, after a first one tore its client down
\* and removed its directory, came to its end.
C23_Witness ==
    /\ last.op = "deleteSession.done"
    /\ last.client = NoClient
    /\ last.data = ""
    /\ clients[last.userId] = NoClient
    /\ SessionDir(last.userId) \notin authDir
    /\ \E h \in ClientsOf(last.userId) : handles[h].torn
    /\ emitted = <<Ev(last.userId, "disconnected", "logout")>>

\* C24: the handler of a disconnected signal of a client that is not the
\* client registered for its tenant leaves the tenant's registered client in
\* the registry.
C24_StaleDisconnectKeepsNewerClient ==
    [][(/\ last'.op = "disconnected"
        /\ clients[last'.userId] # NoClient
        /\ clients[last'.userId] # last'.client) =>
          clients'[last'.userId] = clients[last'.userId]]_vars

\* C25: when deleteSession of a tenant comes back from destroy and the
\* tenant's registered client is not the one the call had fetched, that
\* client stays registered.
C25_DeleteSessionRemovesOnlyFetchedClient ==
    [][(/\ last'.op \in {"destroy.ok", "destroy.fail"}
        /\ clients[last'.userId] # NoClient
        /\ clients[last'.userId] # last'.client) =>
          clients'[last'.userId] = clients[last'.userId]]_vars

\* C26: whenever status{CONNECTED} is emitted to a tenant, the tenant has a
\* registered client whose latest signal is ready and whose initialize has not
\* failed.
C26_ConnectedStatusOnlyWhenReady ==
    \A i \in DOMAIN emitted :
        emitted[i] = Ev(emitted[i].room, "status", "CONNECTED") =>
            /\ clients[emitted[i].room] # NoClient
            /\ handles[clients[emitted[i].room]].state = "CONNECTED"
            /\ handles[clients[emitted[i].room]].init # "failed"

\* The tenant's registered client is one whose initialize has failed.
FailedRegistered(t) == clients[t] # NoClient /\ handles[clients[t]].init = "failed"

\* C27: when initialize of a client rejects, startClient emits
\* error{Failed to initialize} to the tenant and nothing else, leaves the
\* registry as it was, raises nothing and returns the client; while a client
\* whose initialize failed is registered, a startClient of the tenant returns
\* it and changes no client, and only a disconnected signal or a deleteSession
\* of the tenant takes it out of the registry.
C27_FailedInitializeStaysRegistered ==
    [][
        /\ last'.op = "initialize.fail" =>
              /\ emitted' = <<Ev(last'.userId, "error", "Failed to initialize")>>
              /\ clients' = clients
              /\ ~last'.raised
              /\ last'.ret = last'.client
        /\ \A t \in Tenants :
              FailedRegistered(t) =>
                  /\ (last'.op = "startClient" /\ last'.userId = t) =>
                        /\ last'.ret = clients[t]
                        /\ clients' = clients
                        /\ handles' = handles
                  /\ clients'[t] # clients[t] =>
                        /\ last'.userId = t
                        /\ last'.op \in {"disconnected", "destroy.ok", "destroy.fail"}
    ]_vars

\* startClient returned the tenant's registered client, whose initialize had
\* failed before it raised any signal.
C27_Witness ==
    /\ last.op = "startClient"
    /\ last.ret # NoClient
    /\ last.ret = clients[last.userId]
    /\ handles[last.ret].init = "failed"
    /\ handles[last.ret].state = "INITIALIZING"

\* C28: a tenant's credential directory is removed only in a step in which the
\* tenant has no registered client, and the last step of deleteSession, which
\* emits disconnected{logout}, is taken only while the tenant has none.
C28_DirectoryRemovedOnlyWhenUnregistered ==
    [][
        /\ \A t \in Tenants :
              (SessionDir(t) \in authDir /\ SessionDir(t) \notin authDir') =>
                  clients[t] = NoClient
        /\ last'.op = "deleteSession.done" => clients[last'.userId] = NoClient
    ]_vars

ReadSteps == {"getClient", "getQr", "send-message", "send-message.noNumber", "status"}

\* What every read path does: it changes neither the registry, nor the
\* pairing cache, nor any client, and emits nothing; a status request of a
\* tenant with no registered client is answered DISCONNECTED.
ReadPathStep ==
    /\ clients' = clients
    /\ lastQr' = lastQr
    /\ handles' = handles
    /\ emitted' = <<>>
    /\ (last'.op = "status" /\ clients[last'.userId] = NoClient) =>
          last'.data = "DISCONNECTED"

\* C29: getClient, getQr, send-message and status change neither the registry
\* nor the pairing cache of any tenant and start no client; status for a
\* tenant with no registered client answers DISCONNECTED, and every
\* send-message request for such a tenant answers 'Session not active'.
C29_ReadPathsNeverStartASession ==
    [][last'.op \in ReadSteps =>
          /\ ReadPathStep
          /\ (/\ last'.op \in {"send-message", "send-message.noNumber"}
              /\ clients[last'.userId] = NoClient) =>
                last'.data = "Session not active"]_vars

\* C29, amended: as above, where a send-message request for a tenant with no
\* registered client answers 'Session not active' if it carries a number, and
\* 'Number is required' if it carries none.
C29_ReadPathsNeverStartASessionGivenNumber ==
    [][last'.op \in ReadSteps =>
          /\ ReadPathStep
          /\ (last'.op = "send-message" /\ clients[last'.userId] = NoClient) =>
                last'.data = "Session not active"
          /\ last'.op = "send-message.noNumber" => last'.data = "Number is required"]_vars

\* A send-message request for a tenant whose client had disconnected after a
\* pairing challenge was answered 'Session not active'.
C29_Witness ==
    /\ last.op = "send-message"
    /\ last.data = "Session not active"
    /\ clients[last.userId] = NoClient
    /\ lastQr[last.userId] # Undefined
    /\ \E h \in ClientsOf(last.userId) : handles[h].state = "DISCONNECTED"

StartedSteps ==
    {"startClient", "initialize.ok", "initialize.fail", "qr", "ready", "auth_failure",
     "message", "disconnected"}

\* C30: a startClient of a tenant, and the handler of every signal, message
\* and initialize failure of a client created for a tenant, leave the registry
\* entry and the pairing cache of every other tenant as they were.
C30_OtherTenantsStateUntouched ==
    [][last'.op \in StartedSteps =>
          /\ last'.op # "startClient" => handles[last'.client].userId = last'.userId
          /\ \A t \in Tenants \ {last'.userId} :
                /\ clients'[t] = clients[t]
                /\ lastQr'[t] = lastQr[t]]_vars

\* A tenant's client signalled disconnected while a message of it is being
\* dispatched; the other tenant's client is still registered and its pairing
\* challenge still cached.
C30_Witness ==
    /\ last.op = "disconnected"
    /\ clients[last.userId] = NoClient
    /\ \E d \in inflight : d.userId = last.userId
    /\ \E t \in Tenants :
        /\ t # last.userId
        /\ clients[t] # NoClient
        /\ lastQr[t] # Undefined

====
